---- MODULE Spec2Model ----
(***************************************************************************)
(* Model of refactor_solid.py: the Order record, the payment processors,   *)
(* the e-mail notifier, CheckoutService.run_checkout and the demo main().  *)
(*                                                                         *)
(* Orders live in a heap (object identity -> fields) because run_checkout  *)
(* mutates the instance it was handed.  A call of a Python method either   *)
(* returns or raises; "raised" is "none", "Exception" (a subclass of      *)
(* Exception) or "BaseException" (KeyboardInterrupt, SystemExit, ...: a    *)
(* BaseException that is not an Exception).                                *)
(***************************************************************************)
EXTENDS Integers, Sequences, FiniteSets, TLC

\* ---------------------------------------------------------------- bounds
NumOrders == 2
NumServices == 1
MaxCalls == 3

OrderIds == 1..NumOrders
ServiceIds == 1..NumServices

\* ------------------------------------------------------------ data model
AndiPrice == 500000
BudiPrice == 100000

\* Order(customer_name, total_price): status takes its default
Order(customer_name, total_price) ==
    [customer_name |-> customer_name, total_price |-> total_price, status |-> "open"]

\* the orders a caller builds before checkout
InitialOrders == {Order("Andi", AndiPrice), Order("Budi", BudiPrice)}

ProcessorKinds == {"CreditCardProcessor", "QrisProcessor", "IPaymentProcessor"}
NotifierKinds == {"EmailNotifier", "INotificationService"}

\* what an arbitrary implementation of IPaymentProcessor.process may do
ProcessBehaviours == {"true", "false", "Exception", "BaseException"}
\* what an arbitrary implementation of INotificationService.send may do
SendBehaviours == {"ok", "Exception", "BaseException"}

\* events of one call: which method ran on which order, and the
\* status that order had when the method was entered
Event(op, oid, heap) == [op |-> op, oid |-> oid, status |-> heap[oid].status]

\* ------------------------------------------------------------ processors
CreditCardProcessor_process(heap, oid) ==
    [raised |-> "none", ret |-> TRUE, heap |-> heap]

QrisProcessor_process_declines(heap, oid) ==
    [raised |-> "none", ret |-> FALSE, heap |-> heap]

QrisProcessor_process(heap, oid) ==
    [raised |-> "none", ret |-> TRUE, heap |-> heap]

\* any other implementation of the interface: returns True, returns False
\* or raises, as its docstring allows
IPaymentProcessor_process(heap, oid, behaviour) ==
    IF behaviour \in {"Exception", "BaseException"}
    THEN [raised |-> behaviour, ret |-> FALSE, heap |-> heap]
    ELSE [raised |-> "none", ret |-> (behaviour = "true"), heap |-> heap]

\* self.payment_processor.process(order): dynamic dispatch
process(kind, heap, oid, behaviour) ==
    CASE kind = "CreditCardProcessor" -> CreditCardProcessor_process(heap, oid)
      [] kind = "QrisProcessor" -> QrisProcessor_process(heap, oid)
      [] OTHER -> IPaymentProcessor_process(heap, oid, behaviour)

\* ------------------------------------------------------------- notifiers
EmailNotifier_send_renames(heap, oid) ==
    [raised |-> "none", heap |-> [heap EXCEPT ![oid].customer_name = "notified"]]

EmailNotifier_send(heap, oid) ==
    [raised |-> "none", heap |-> heap]

INotificationService_send(heap, oid, behaviour) ==
    [raised |-> IF behaviour = "ok" THEN "none" ELSE behaviour, heap |-> heap]

\* self.notifier.send(order): dynamic dispatch
send(kind, heap, oid, behaviour) ==
    CASE kind = "EmailNotifier" -> EmailNotifier_send(heap, oid)
      [] OTHER -> INotificationService_send(heap, oid, behaviour)

\* ------------------------------------------------------- CheckoutService
\* __init__: the injected references are stored, nothing is constructed
CheckoutService(payment_processor, notifier) ==
    [payment_processor |-> payment_processor, notifier |-> notifier]

\* `if payment_success:`
PaymentSucceeded_always(ret) == TRUE

PaymentSucceeded(ret) == ret = TRUE

\* `order.status = "paid"`
SetPaid_noop(heap, oid) == heap

SetPaid(heap, oid) == [heap EXCEPT ![oid].status = "paid"]

\* the branch taken on payment success, notifying before the status write
PaidBranch_sendfirst(self, heap, oid, nb, events) ==
    LET ev1 == Append(events, Event("send", oid, heap))
        n == send(self.notifier, heap, oid, nb)
        sendOutcome == IF n.raised = "none" THEN "ok" ELSE n.raised
    IN  IF n.raised # "none"
        THEN [raised |-> n.raised, ret |-> FALSE, heap |-> n.heap,
              events |-> ev1, sendOutcome |-> sendOutcome]
        ELSE [raised |-> "none", ret |-> TRUE, heap |-> SetPaid(n.heap, oid),
              events |-> Append(ev1, Event("write", oid, n.heap)),
              sendOutcome |-> sendOutcome]

\* the branch taken on payment success: status write, notification, True
PaidBranch(self, heap, oid, nb, events) ==
    LET ev1 == Append(events, Event("write", oid, heap))
        h1 == SetPaid(heap, oid)
        ev2 == Append(ev1, Event("send", oid, h1))
        n == send(self.notifier, h1, oid, nb)
        sendOutcome == IF n.raised = "none" THEN "ok" ELSE n.raised
    IN  [raised |-> n.raised, ret |-> (n.raised = "none"), heap |-> n.heap,
         events |-> ev2, sendOutcome |-> sendOutcome]

\* the body of the try statement
TryBody(self, heap, oid, pb, nb) ==
    LET ev0 == <<Event("process", oid, heap)>>
        p == process(self.payment_processor, heap, oid, pb)
        procOutcome == IF p.raised # "none" THEN p.raised
                       ELSE IF p.ret THEN "true" ELSE "false"
    IN  IF p.raised # "none"
        THEN [raised |-> p.raised, ret |-> FALSE, heap |-> p.heap, events |-> ev0,
              procOutcome |-> procOutcome, sendOutcome |-> "notcalled"]
        ELSE IF PaymentSucceeded(p.ret)
        THEN LET b == PaidBranch(self, p.heap, oid, nb, ev0)
             IN  [raised |-> b.raised, ret |-> b.ret, heap |-> b.heap,
                  events |-> b.events, procOutcome |-> procOutcome,
                  sendOutcome |-> b.sendOutcome]
        ELSE [raised |-> "none", ret |-> FALSE, heap |-> p.heap, events |-> ev0,
              procOutcome |-> procOutcome, sendOutcome |-> "notcalled"]

\* `except Exception as e: ... return False`; outcome is what the caller
\* of run_checkout observes: "true", "false" or "raised"
ExceptException_reraises(r) ==
    [outcome |-> IF r.raised # "none" THEN "raised"
                 ELSE IF r.ret THEN "true" ELSE "false",
     heap |-> r.heap, events |-> r.events,
     procOutcome |-> r.procOutcome, sendOutcome |-> r.sendOutcome]

ExceptException(r) ==
    [outcome |-> IF r.raised = "Exception" THEN "false"
                 ELSE IF r.raised # "none" THEN "raised"
                 ELSE IF r.ret THEN "true" ELSE "false",
     heap |-> r.heap, events |-> r.events,
     procOutcome |-> r.procOutcome, sendOutcome |-> r.sendOutcome]

\* run_checkout refusing an order that is not "open"
run_checkout_guarded(self, heap, oid, pb, nb) ==
    IF heap[oid].status # "open"
    THEN [outcome |-> "false", heap |-> heap, events |-> <<>>,
          procOutcome |-> "false", sendOutcome |-> "notcalled"]
    ELSE ExceptException(TryBody(self, heap, oid, pb, nb))

run_checkout(self, heap, oid, pb, nb) ==
    ExceptException(TryBody(self, heap, oid, pb, nb))

\* number of events of one kind on one order
RECURSIVE CountEvents(_, _, _)
CountEvents(events, op, oid) ==
    IF events = <<>> THEN 0
    ELSE (IF Head(events).op = op /\ Head(events).oid = oid THEN 1 ELSE 0)
         + CountEvents(Tail(events), op, oid)

\* ----------------------------------------------------------------- state
VARIABLES
    orders,        \* heap of the caller's Order instances
    services,      \* the CheckoutService instances constructed so far
    calls,         \* per order: run_checkout calls made on it
    processCalls,  \* per order: invocations of process with it
    sendCalls,     \* per order: invocations of send with it
    okCalls,       \* per order: run_checkout calls on it that returned True
    last,          \* the most recent run_checkout call and what it did
    mainPc,        \* position of the demo main()
    mainHeap,      \* main's local orders andi_order and budi_order
    result1,       \* main's local result1
    result2,       \* main's local result2
    mainSent       \* orders main's email_service was invoked with, in order

vars == <<orders, services, calls, processCalls, sendCalls, okCalls, last,
          mainPc, mainHeap, result1, result2, mainSent>>

harnessVars == <<orders, services, calls, processCalls, sendCalls, okCalls, last>>
mainVars == <<mainPc, mainHeap, result1, result2, mainSent>>

TotalCalls == LET RECURSIVE Sum(_)
                  Sum(n) == IF n = 0 THEN 0 ELSE calls[n] + Sum(n - 1)
              IN  Sum(NumOrders)

Init ==
    /\ orders \in [OrderIds -> InitialOrders]
    /\ services = <<>>
    /\ calls = [o \in OrderIds |-> 0]
    /\ processCalls = [o \in OrderIds |-> 0]
    /\ sendCalls = [o \in OrderIds |-> 0]
    /\ okCalls = [o \in OrderIds |-> 0]
    /\ last = [called |-> FALSE,
               self |-> CheckoutService("CreditCardProcessor", "EmailNotifier"),
               oid |-> 1, pre |-> orders, outcome |-> "false", events |-> <<>>,
               procOutcome |-> "false", sendOutcome |-> "notcalled"]
    /\ mainPc = "idle"
    /\ mainHeap = <<>>
    /\ result1 = "unset"
    /\ result2 = "unset"
    /\ mainSent = <<>>

\* main is not in the middle of its run
MainNotRunning == mainPc \in {"idle", "done", "aborted"}

\* CheckoutService(payment_processor=p, notifier=n)
CheckoutService_init(p, n) ==
    /\ MainNotRunning
    /\ Len(services) < NumServices
    /\ services' = Append(services, CheckoutService(p, n))
    /\ UNCHANGED <<orders, calls, processCalls, sendCalls, okCalls, last>>
    /\ UNCHANGED mainVars

\* services[s].run_checkout(orders[oid]); pb and nb are what the injected
\* interface implementations do in this call (ignored by the shipped classes)
RunCheckout(s, oid, pb, nb) ==
    /\ MainNotRunning
    /\ s \in DOMAIN services
    /\ TotalCalls < MaxCalls
    /\ LET r == run_checkout(services[s], orders, oid, pb, nb)
       IN  /\ orders' = r.heap
           /\ calls' = [calls EXCEPT ![oid] = @ + 1]
           /\ processCalls' = [o \in OrderIds |->
                                 processCalls[o] + CountEvents(r.events, "process", o)]
           /\ sendCalls' = [o \in OrderIds |->
                              sendCalls[o] + CountEvents(r.events, "send", o)]
           /\ okCalls' = [okCalls EXCEPT ![oid] =
                            IF r.outcome = "true" THEN @ + 1 ELSE @]
           /\ last' = [called |-> TRUE, self |-> services[s], oid |-> oid,
                       pre |-> orders, outcome |-> r.outcome, events |-> r.events,
                       procOutcome |-> r.procOutcome, sendOutcome |-> r.sendOutcome]
    /\ UNCHANGED services
    /\ UNCHANGED mainVars

\* ------------------------------------------------------------------ main
\* the orders main's notifier was invoked with during one call
RECURSIVE SentTo(_)
SentTo(events) ==
    IF events = <<>> THEN <<>>
    ELSE (IF Head(events).op = "send" THEN <<Head(events).oid>> ELSE <<>>)
         \o SentTo(Tail(events))

\* andi_order, budi_order and email_service are created; main is the entry
\* point of the script, so it starts before anything else has been called
main_setup ==
    /\ mainPc = "idle"
    /\ services = <<>>
    /\ TotalCalls = 0
    /\ mainHeap' = [andi_order |-> Order("Andi", AndiPrice),
                    budi_order |-> Order("Budi", BudiPrice)]
    /\ mainPc' = "scenario1"
    /\ UNCHANGED <<result1, result2, mainSent>>
    /\ UNCHANGED harnessVars

\* scenario 1: CreditCardProcessor, run_checkout(andi_order)
main_scenario1 ==
    /\ mainPc = "scenario1"
    /\ LET checkout_cc == CheckoutService("CreditCardProcessor", "EmailNotifier")
           r == run_checkout(checkout_cc, mainHeap, "andi_order", "true", "ok")
       IN  /\ mainHeap' = r.heap
           /\ mainSent' = mainSent \o SentTo(r.events)
           /\ result1' = IF r.outcome = "raised" THEN result1 ELSE r.outcome
           /\ mainPc' = IF r.outcome = "raised" THEN "aborted" ELSE "scenario2"
    /\ UNCHANGED result2
    /\ UNCHANGED harnessVars

\* scenario 2 run on the order of scenario 1
main_scenario2_sameorder ==
    /\ mainPc = "scenario2"
    /\ LET checkout_qris == CheckoutService("QrisProcessor", "EmailNotifier")
           r == run_checkout(checkout_qris, mainHeap, "andi_order", "true", "ok")
       IN  /\ mainHeap' = r.heap
           /\ mainSent' = mainSent \o SentTo(r.events)
           /\ result2' = IF r.outcome = "raised" THEN result2 ELSE r.outcome
           /\ mainPc' = IF r.outcome = "raised" THEN "aborted" ELSE "completed"
    /\ UNCHANGED result1
    /\ UNCHANGED harnessVars

\* scenario 2: QrisProcessor, run_checkout(budi_order)
main_scenario2 ==
    /\ mainPc = "scenario2"
    /\ LET checkout_qris == CheckoutService("QrisProcessor", "EmailNotifier")
           r == run_checkout(checkout_qris, mainHeap, "budi_order", "true", "ok")
       IN  /\ mainHeap' = r.heap
           /\ mainSent' = mainSent \o SentTo(r.events)
           /\ result2' = IF r.outcome = "raised" THEN result2 ELSE r.outcome
           /\ mainPc' = IF r.outcome = "raised" THEN "aborted" ELSE "completed"
    /\ UNCHANGED result1
    /\ UNCHANGED harnessVars

\* the closing log line, then main returns
main_completed ==
    /\ mainPc = "completed"
    /\ mainPc' = "done"
    /\ UNCHANGED <<mainHeap, result1, result2, mainSent>>
    /\ UNCHANGED harnessVars

Next ==
    \/ \E p \in ProcessorKinds, n \in NotifierKinds : CheckoutService_init(p, n)
    \/ \E s \in ServiceIds, oid \in OrderIds,
          pb \in ProcessBehaviours, nb \in SendBehaviours : RunCheckout(s, oid, pb, nb)
    \/ main_setup
    \/ main_scenario1
    \/ main_scenario2
    \/ main_completed

Spec == Init /\ [][Next]_vars

\* main is straight-line code: once entered, each of its steps is taken
FairSpec ==
    /\ Spec
    /\ WF_vars(main_scenario1)
    /\ WF_vars(main_scenario2)
    /\ WF_vars(main_completed)

\* ---------------------------------------------------------------- typing
TypeOK ==
    /\ \A o \in OrderIds : orders[o].status \in {"open", "paid"}
    /\ Len(services) <= NumServices
    /\ TotalCalls <= MaxCalls
    /\ last.outcome \in {"true", "false", "raised"}
    /\ mainPc \in {"idle", "scenario1", "scenario2", "completed", "done", "aborted"}

\* ---------------------------------------------------------------- claims
LastOrder == orders[last.oid]
LastPre == last.pre[last.oid]
Raises == {"Exception", "BaseException"}

\* C1: an order that was "open", a process that returned true and a send
\* that returned normally: the call returned true and the order is "paid".
C1_SuccessMarksPaid ==
    (last.called /\ LastPre.status = "open"
       /\ last.procOutcome = "true" /\ last.sendOutcome = "ok")
    => (LastOrder.status = "paid" /\ last.outcome = "true")

C1_Witness ==
    /\ last.called /\ LastPre.status = "open"
    /\ last.procOutcome = "true" /\ last.sendOutcome = "ok"
    /\ last.self.payment_processor = "IPaymentProcessor"
    /\ LastOrder.status = "paid"

\* C2: a process that returned false, on an order of any status: the call
\* returned false and status, customer_name and total_price are as before.
C2_DeclineLeavesOrder ==
    (last.called /\ last.procOutcome = "false")
    => /\ last.outcome = "false"
       /\ LastOrder.status = LastPre.status
       /\ LastOrder.customer_name = LastPre.customer_name
       /\ LastOrder.total_price = LastPre.total_price

C2_Witness ==
    /\ last.called /\ last.procOutcome = "false"
    /\ LastPre.status = "paid" /\ last.outcome = "false"

\* C3: in every call, send is invoked exactly once, with the order of the
\* call, when process returned true, and not at all when process returned
\* false or raised.
C3_SendIffPaymentSucceeded ==
    last.called =>
        /\ \A o \in OrderIds :
              CountEvents(last.events, "send", o)
                = (IF last.procOutcome = "true" /\ o = last.oid THEN 1 ELSE 0)
        /\ (last.sendOutcome # "notcalled") <=> (last.procOutcome = "true")

C3_Witness ==
    /\ last.called /\ last.procOutcome \in Raises
    /\ sendCalls[last.oid] = 1 /\ processCalls[last.oid] = 2

\* C4: status changes only from "open" to "paid" and only in a call that
\* returns true; a call that returns false leaves the status as it was.
C4_StatusChangesOnlyOnSuccess ==
    /\ \A o \in OrderIds : calls[o] = 0 => orders[o].status = "open"
    /\ last.called =>
          /\ (LastOrder.status # LastPre.status)
                => /\ LastPre.status = "open" /\ LastOrder.status = "paid"
                   /\ last.outcome = "true"
          /\ (last.outcome = "false") => (LastOrder.status = LastPre.status)
          /\ (LastPre.status = "paid") => (LastOrder.status = "paid")

\* C5 as stated: whenever process or send raises, the call returns false.
C5_NeverPropagates ==
    (last.called /\ (last.procOutcome \in Raises \/ last.sendOutcome \in Raises))
    => last.outcome = "false"

\* C5 amended: whenever process or send raises an exception derived from
\* Exception, the call returns false instead of raising; a BaseException
\* that is not an Exception propagates to the caller.
C5_ExceptionBecomesFalse ==
    last.called =>
        /\ (last.procOutcome = "Exception" \/ last.sendOutcome = "Exception")
              => last.outcome = "false"
        /\ (last.procOutcome = "BaseException" \/ last.sendOutcome = "BaseException")
              => last.outcome = "raised"

C5_Witness ==
    /\ last.called /\ last.sendOutcome = "Exception" /\ last.outcome = "false"

\* C6: process is invoked first and exactly once, and every invocation of
\* send comes after the status write and sees the order with status "paid".
C6_ProcessWriteSend ==
    last.called =>
        /\ Len(last.events) >= 1
        /\ last.events[1].op = "process"
        /\ CountEvents(last.events, "process", last.oid) = 1
        /\ \A i \in 1..Len(last.events) :
              /\ last.events[i].oid = last.oid
              /\ (last.events[i].op = "write") => i = 2
              /\ (last.events[i].op = "send")
                    => /\ i = 3 /\ last.events[2].op = "write"
                       /\ last.events[i].status = "paid"

C6_Witness ==
    /\ last.called /\ Len(last.events) = 3
    /\ last.events[3].op = "send" /\ last.events[1].status = "open"

\* the observable result of a call: return value, final status of the
\* order, number of send invocations
Orchestration(self, oid) ==
    LET r == run_checkout(self, orders, oid, "true", "ok")
    IN  <<r.outcome, r.heap[oid].status, CountEvents(r.events, "send", oid)>>

Shipped == {"CreditCardProcessor", "QrisProcessor"}

\* C7: for every order and either shipped processor, process returns true
\* and run_checkout returns true, leaves the order "paid" and invokes send
\* once; the two wirings behave alike and the decline branch is not taken.
C7_VariantsEquivalent ==
    /\ \A o \in OrderIds, n \in NotifierKinds :
          /\ Orchestration(CheckoutService("CreditCardProcessor", n), o)
               = Orchestration(CheckoutService("QrisProcessor", n), o)
          /\ Orchestration(CheckoutService("QrisProcessor", n), o) = <<"true", "paid", 1>>
          /\ CreditCardProcessor_process(orders, o).ret
          /\ QrisProcessor_process(orders, o).ret
    /\ (last.called /\ last.self.payment_processor \in Shipped)
          => /\ last.procOutcome = "true"
             /\ last.sendOutcome = "ok" =>
                  (last.outcome = "true" /\ LastOrder.status = "paid"
                     /\ CountEvents(last.events, "send", last.oid) = 1)

C7_Witness ==
    /\ last.called /\ last.self = CheckoutService("QrisProcessor", "EmailNotifier")
    /\ last.outcome = "true" /\ okCalls[last.oid] = 1
    /\ \E o \in OrderIds : o # last.oid /\ orders[o].status = "paid"

\* what main has done when it is at each of its positions
MainProgress ==
    /\ (mainPc = "scenario1") =>
          /\ mainHeap = [andi_order |-> Order("Andi", AndiPrice),
                         budi_order |-> Order("Budi", BudiPrice)]
          /\ result1 = "unset" /\ result2 = "unset" /\ mainSent = <<>>
    /\ (mainPc = "scenario2") =>
          /\ result1 = "true" /\ result2 = "unset"
          /\ mainHeap.andi_order.status = "paid"
          /\ mainHeap.budi_order.status = "open"
          /\ mainSent = <<"andi_order">>
    /\ (mainPc \in {"completed", "done"}) =>
          /\ result1 = "true" /\ result2 = "true"
          /\ mainHeap = [andi_order |-> [Order("Andi", AndiPrice) EXCEPT !.status = "paid"],
                         budi_order |-> [Order("Budi", BudiPrice) EXCEPT !.status = "paid"]]
          /\ mainSent = <<"andi_order", "budi_order">>
    /\ mainPc # "aborted"

\* C8: main checks out Order("Andi", 500000) by credit card and then
\* Order("Budi", 100000) by QRIS, the first call finished before the second
\* starts; both return true, both orders end "paid", the notifier is invoked
\* once per order, Andi before Budi, and main then terminates.
C8_MainRunsBothScenarios ==
    /\ []MainProgress
    /\ (mainPc = "scenario1") ~> (mainPc = "done")

C8_Witness ==
    /\ mainPc = "done" /\ mainSent = <<"andi_order", "budi_order">>
    /\ result2 = "true" /\ mainHeap.budi_order.status = "paid"

\* a step that is one run_checkout call of the harness
IsCall == TotalCalls' = TotalCalls + 1

\* C9: the shipped process and send methods leave every field of every
\* order as it was, and a run_checkout call changes nothing but the status
\* of the order it was passed: that order's customer_name and total_price,
\* every other order and the service's injected references stay the same.
C9_Frame ==
    [][ /\ \A o \in OrderIds :
              /\ CreditCardProcessor_process(orders, o).heap = orders
              /\ QrisProcessor_process(orders, o).heap = orders
              /\ EmailNotifier_send(orders, o).heap = orders
        /\ IsCall =>
              /\ \A o \in OrderIds :
                    /\ orders'[o].customer_name = orders[o].customer_name
                    /\ orders'[o].total_price = orders[o].total_price
                    /\ (o # last'.oid) => (orders'[o] = orders[o])
              /\ services' = services
              /\ \E s \in DOMAIN services' : last'.self = services'[s]
              /\ mainHeap' = mainHeap
      ]_vars

C9_Witness ==
    /\ last.called /\ last.outcome = "true"
    /\ last.self.notifier = "EmailNotifier"
    /\ LastPre.status = "open" /\ LastOrder.status = "paid"
    /\ \E o \in OrderIds : o # last.oid /\ orders[o].status = "open"

\* C10: a call on an order that is already "paid", with a process that
\* returns true, invokes process and send again, returns true and leaves
\* the order "paid"; n successful calls on one order make n invocations of
\* process and n of send with it.
C10_NoOpenPrecondition ==
    /\ (last.called /\ LastPre.status = "paid" /\ last.procOutcome = "true"
          /\ last.sendOutcome = "ok")
          => /\ last.outcome = "true" /\ LastOrder.status = "paid"
             /\ CountEvents(last.events, "process", last.oid) = 1
             /\ CountEvents(last.events, "send", last.oid) = 1
    /\ \A o \in OrderIds :
          /\ processCalls[o] = calls[o]
          /\ (okCalls[o] = calls[o]) => (sendCalls[o] = calls[o])

C10_Witness ==
    /\ last.called /\ LastPre.status = "paid" /\ last.outcome = "true"
    /\ okCalls[last.oid] = 2 /\ calls[last.oid] = 2
    /\ processCalls[last.oid] = 2 /\ sendCalls[last.oid] = 2

====
